---- MODULE Spec2Model ----
(***************************************************************************)
(* Pythia: web front-end for the Go source code oracle (main.go).          *)
(*                                                                         *)
(* A Go string is a finite sequence of byte values, so that ordering,      *)
(* splitting, joining and formatting are computed on the bytes.            *)
(***************************************************************************)
EXTENDS Naturals, Integers, Sequences, FiniteSets, TLC

(* ---------------------------- bounds ----------------------------------- *)
\* number of concurrently handled HTTP requests
NumRequests == 2
\* number of distinct package objects of a snapshot (index derivation)
MaxPkgs == 2
\* number of files of a snapshot's file set (index derivation)
MaxFiles == 3
\* number of packages of a scope handed to cmdLine
MaxScope == 2

(* ------------------------ string literals ------------------------------ *)
\* ""
Empty == << >>
\* " "
Space == <<32>>
\* ","
Comma == <<44>>
\* "oracle"
StrOracle == <<111,114,97,99,108,101>>
\* "-pos="
StrPosFlag == <<45,112,111,115,61>>
\* "-format="
StrFormatFlag == <<45,102,111,114,109,97,116,61>>
\* "callers", "callgraph", "describe", "bogus"
StrCallers == <<99,97,108,108,101,114,115>>
StrCallgraph == <<99,97,108,108,103,114,97,112,104>>
StrDescribe == <<100,101,115,99,114,105,98,101>>
StrBogus == <<98,111,103,117,115>>
\* "callees", "callstack", "pointsto", "whicherrs", "implements", "freevars",
\* "referrers"
StrCallees == <<99,97,108,108,101,101,115>>
StrCallstack == <<99,97,108,108,115,116,97,99,107>>
StrPointsto == <<112,111,105,110,116,115,116,111>>
StrWhicherrs == <<119,104,105,99,104,101,114,114,115>>
StrImplements == <<105,109,112,108,101,109,101,110,116,115>>
StrFreevars == <<102,114,101,101,118,97,114,115>>
StrReferrers == <<114,101,102,101,114,114,101,114,115>>
\* ":", "a:1"
Colon == <<58>>
StrPosA == <<97,58,49>>
\* "json", "plain"
StrJson == <<106,115,111,110>>
StrPlain == <<112,108,97,105,110>>
\* "foo.go:10:2", "example.com/pkg"
StrFooPos == <<102,111,111,46,103,111,58,49,48,58,50>>
StrExamplePkg == <<101,120,97,109,112,108,101,46,99,111,109,47,112,107,103>>
\* "oracle -pos=foo.go:10:2 -format=json callers example.com/pkg"
StrExampleLine ==
  <<111,114,97,99,108,101,32,45,112,111,115,61,102,111,111,46,103,111,58,49,
    48,58,50,32,45,102,111,114,109,97,116,61,106,115,111,110,32,99,97,108,108,
    101,114,115,32,101,120,97,109,112,108,101,46,99,111,109,47,112,107,103>>
\* "a", "ab", "b"
StrA == <<97>>
StrAB == <<97,98>>
StrB == <<98>>
\* "a,b"
StrTagsAB == <<97,44,98>>

(* ------------------------ string operations ---------------------------- *)
\* a < b on Go strings: lexicographic comparison of the bytes
RECURSIVE StrLess(_, _)
StrLess(a, b) ==
  IF a = << >> THEN b # << >>
  ELSE IF b = << >> THEN FALSE
  ELSE IF Head(a) # Head(b) THEN Head(a) < Head(b)
  ELSE StrLess(Tail(a), Tail(b))

\* strings.Join(elems, sep)
RECURSIVE Join(_, _)
Join(elems, sep) ==
  IF elems = << >> THEN << >>
  ELSE IF Len(elems) = 1 THEN elems[1]
  ELSE elems[1] \o sep \o Join(Tail(elems), sep)

\* strings.Index(s, sep) for a one-byte separator: 0 when sep is absent
IndexByte(s, sep) ==
  IF \E i \in 1..Len(s) : s[i] = sep[1]
  THEN CHOOSE i \in 1..Len(s) : s[i] = sep[1] /\ \A j \in 1..(i-1) : s[j] # sep[1]
  ELSE 0

\* strings.Split(s, sep) for a one-byte separator: the pieces between the
\* separators; a string without separator (the empty string too) is one piece
RECURSIVE Split(_, _)
Split(s, sep) ==
  LET m == IndexByte(s, sep) IN
  IF m = 0 THEN <<s>>
  ELSE <<SubSeq(s, 1, m-1)>> \o Split(SubSeq(s, m+1, Len(s)), sep)

\* cmdLine with the mode put before the flags
cmdLineModeFirst(mode, pos, format, scope) ==
  StrOracle \o Space \o mode \o Space \o StrPosFlag \o pos \o Space
    \o StrFormatFlag \o format \o Space \o Join(scope, Space)

\* fmt.Sprintf("oracle -pos=%s -format=%s %s %s", pos, format, mode,
\*             strings.Join(scope, " "))
cmdLine(mode, pos, format, scope) ==
  StrOracle \o Space \o StrPosFlag \o pos \o Space \o StrFormatFlag \o format
    \o Space \o mode \o Space \o Join(scope, Space)

(* ------------------------- program snapshot ---------------------------- *)
\* An importer.Program: AllPackages is the map of package objects (a package
\* object is its identity id and its import path), Fset the file set in the
\* order token.FileSet.Iterate visits it. isNil is the nil *importer.Program.
NilProgram == [isNil |-> TRUE, AllPackages |-> {}, Fset |-> << >>]

\* The orders in which a range loop may visit the elements of a map
Orders(S) ==
  {o \in [1..Cardinality(S) -> S] : \A i, j \in DOMAIN o : i # j => o[i] # o[j]}

\* byPath.Less: p[i].Pkg.Path() < p[j].Pkg.Path()
byPathLess(p, q) == StrLess(p.path, q.path)

\* sort.Sort(byPath(pkgs)) on a short slice is the library's insertion sort:
\* each element moves left while it is Less than its left neighbour
RECURSIVE insertByPath(_, _)
insertByPath(sorted, x) ==
  IF sorted = << >> THEN <<x>>
  ELSE IF byPathLess(x, sorted[Len(sorted)])
       THEN Append(insertByPath(SubSeq(sorted, 1, Len(sorted) - 1), x),
                   sorted[Len(sorted)])
       ELSE Append(sorted, x)

RECURSIVE sortByPath(_)
sortByPath(data) ==
  IF data = << >> THEN << >>
  ELSE insertByPath(sortByPath(SubSeq(data, 1, Len(data) - 1)), data[Len(data)])

\* sort.Strings(files): the same insertion sort with x < y on strings
RECURSIVE insertString(_, _)
insertString(sorted, x) ==
  IF sorted = << >> THEN <<x>>
  ELSE IF StrLess(x, sorted[Len(sorted)])
       THEN Append(insertString(SubSeq(sorted, 1, Len(sorted) - 1), x),
                   sorted[Len(sorted)])
       ELSE Append(sorted, x)

RECURSIVE sortStrings(_)
sortStrings(data) ==
  IF data = << >> THEN << >>
  ELSE insertString(sortStrings(SubSeq(data, 1, Len(data) - 1)), data[Len(data)])

\* sortedPackages without the call of sort.Sort
sortedPackagesUnsorted(prog, order) == order

\* sortedPackages(iprog): range over iprog.AllPackages in the order `order`,
\* append each package, sort by path
sortedPackages(prog, order) == sortByPath(order)

\* scopeFiles(iprog): append the name of every file of the file set, sort
scopeFiles(prog) == sortStrings(prog.Fset)

(* ------------------------------ state ---------------------------------- *)
VARIABLES
  mainPc,      \* position of main(): the next statement it runs
  exitCode,    \* argument of os.Exit, 0 while the process runs
  failedAt,    \* the step whose error ended the process, "none" before
  args,        \* var args []string
  tags,        \* flag -tags
  buildTags,   \* settings.BuildTags handed to the loader
  loaderCalls, \* how many loader entry points (FromArgs, Load) were called
  iprog,       \* var iprog *importer.Program
  ora,         \* var ora *oracle.Oracle
  files,       \* var files []string
  packages,    \* var packages []*importer.PackageInfo
  assigned,    \* how often each of iprog, ora, files, packages was assigned
  handlers,    \* whether registerHandlers has run
  listener,    \* "nil" until net.Listen returns a listener, then "open"
  mutex,       \* var mutex sync.Mutex: TRUE while locked
  reqPc,       \* position of each /query request
  query,       \* the parameters of each /query request
  outcome,     \* how each request's engine call ended
  prev,        \* the results of the previous index derivation
  cmdIn,       \* arguments of a cmdLine call
  cmdOut       \* result of a cmdLine call

vars == <<mainPc, exitCode, failedAt, args, tags, buildTags, loaderCalls,
          iprog, ora, files, packages, assigned, handlers, listener, mutex,
          reqPc, query, outcome, prev, cmdIn, cmdOut>>

mainVars == <<mainPc, exitCode, failedAt, args, tags, buildTags,
              loaderCalls, iprog, ora, files, packages, assigned, handlers,
              listener>>
reqVars == <<mutex, reqPc, query, outcome>>
pureVars == <<prev, cmdIn, cmdOut>>

Requests == 1..NumRequests

\* the nil *oracle.Oracle
NilOracle == [isNil |-> TRUE, prog |-> NilProgram]
NoQuery == [mode |-> Empty, pos |-> Empty, format |-> Empty, scope |-> << >>]
NoCall == [mode |-> Empty, pos |-> Empty, format |-> Empty, scope |-> << >>,
           called |-> FALSE]

(* --------------------------- input domains ----------------------------- *)
\* values of the -tags flag: the default and a two-tag list
TagValues == {Empty, StrTagsAB}
\* flag.Args(): no package argument, or one
ArgLists == {<< >>, <<StrA>>}
\* programs conf.Load can return
LoadablePrograms ==
  { [isNil |-> FALSE,
     AllPackages |-> {[id |-> 1, path |-> StrB], [id |-> 2, path |-> StrA]},
     Fset |-> <<StrB, StrA>>],
    [isNil |-> FALSE,
     AllPackages |-> {[id |-> 1, path |-> StrAB]},
     Fset |-> <<StrAB>>] }

(* ------------------------------ main() --------------------------------- *)
\* os.Exit(code) after the error of step `at`
Exit(code, at) ==
  /\ mainPc' = "exited"
  /\ exitCode' = code
  /\ failedAt' = at

\* exitError(err): print the error, os.Exit(1)
exitError(at) == Exit(1, at)

\* flag.CommandLine.Parse(os.Args[1:]); args = flag.Args()
ParseFlags ==
  /\ mainPc = "parse"
  /\ \/ /\ Exit(2, "flags")
        /\ UNCHANGED <<args, tags>>
     \/ /\ Exit(2, "help")
        /\ UNCHANGED <<args, tags>>
     \/ /\ tags' \in TagValues
        /\ args' \in ArgLists
        /\ mainPc' = "checkArgs"
        /\ UNCHANGED <<exitCode, failedAt>>
  /\ UNCHANGED <<buildTags, loaderCalls, iprog, ora, files, packages, assigned,
                 handlers, listener>>
  /\ UNCHANGED <<reqVars, pureVars>>

\* CheckArgs reporting the missing arguments through exitError
CheckArgsExitError ==
  /\ mainPc = "checkArgs"
  /\ IF Len(args) = 0
     THEN exitError("noargs")
     ELSE /\ mainPc' = "configure"
          /\ UNCHANGED <<exitCode, failedAt>>
  /\ UNCHANGED <<args, tags, buildTags, loaderCalls, iprog, ora, files,
                 packages, assigned, handlers, listener>>
  /\ UNCHANGED <<reqVars, pureVars>>

\* if len(args) == 0 { ...; os.Exit(2) }
CheckArgs ==
  /\ mainPc = "checkArgs"
  /\ IF Len(args) = 0
     THEN Exit(2, "noargs")
     ELSE /\ mainPc' = "configure"
          /\ UNCHANGED <<exitCode, failedAt>>
  /\ UNCHANGED <<args, tags, buildTags, loaderCalls, iprog, ora, files,
                 packages, assigned, handlers, listener>>
  /\ UNCHANGED <<reqVars, pureVars>>

\* settings.BuildTags = strings.Split(*tags, ","); conf := importer.Config{...}
Configure ==
  /\ mainPc = "configure"
  /\ buildTags' = Split(tags, Comma)
  /\ mainPc' = "fromArgs"
  /\ UNCHANGED <<exitCode, failedAt, args, tags, loaderCalls, iprog, ora,
                 files, packages, assigned, handlers, listener>>
  /\ UNCHANGED <<reqVars, pureVars>>

\* _, err = conf.FromArgs(args); if err != nil { exitError(err) }
FromArgs ==
  /\ mainPc = "fromArgs"
  /\ loaderCalls' = loaderCalls + 1
  /\ \/ exitError("fromArgs")
     \/ /\ mainPc' = "load"
        /\ UNCHANGED <<exitCode, failedAt>>
  /\ UNCHANGED <<args, tags, buildTags, iprog, ora, files, packages,
                 assigned, handlers, listener>>
  /\ UNCHANGED <<reqVars, pureVars>>

\* Load with the error of conf.Load recorded but startup going on
LoadErrorIgnored ==
  /\ mainPc = "load"
  /\ loaderCalls' = loaderCalls + 1
  /\ assigned' = [assigned EXCEPT !.iprog = @ + 1]
  /\ \/ /\ iprog' = NilProgram
        /\ failedAt' = "load"
        /\ mainPc' = "newOracle"
        /\ UNCHANGED exitCode
     \/ /\ iprog' \in LoadablePrograms
        /\ mainPc' = "newOracle"
        /\ UNCHANGED <<exitCode, failedAt>>
  /\ UNCHANGED <<args, tags, buildTags, ora, files, packages, handlers,
                 listener>>
  /\ UNCHANGED <<reqVars, pureVars>>

\* iprog, err = conf.Load(); if err != nil { exitError(err) }
Load ==
  /\ mainPc = "load"
  /\ loaderCalls' = loaderCalls + 1
  /\ assigned' = [assigned EXCEPT !.iprog = @ + 1]
  /\ \/ /\ iprog' = NilProgram
        /\ exitError("load")
     \/ /\ iprog' \in LoadablePrograms
        /\ mainPc' = "newOracle"
        /\ UNCHANGED <<exitCode, failedAt>>
  /\ UNCHANGED <<args, tags, buildTags, ora, files, packages, handlers,
                 listener>>
  /\ UNCHANGED <<reqVars, pureVars>>

\* ora, err = oracle.New(iprog, nil, false); if err != nil { exitError(err) }
NewOracle ==
  /\ mainPc = "newOracle"
  /\ assigned' = [assigned EXCEPT !.ora = @ + 1]
  /\ \/ /\ ora' = NilOracle
        /\ exitError("oracle")
     \/ /\ ora' = [isNil |-> FALSE, prog |-> iprog]
        /\ mainPc' = "scopeFiles"
        /\ UNCHANGED <<exitCode, failedAt>>
  /\ UNCHANGED <<args, tags, buildTags, loaderCalls, iprog, files,
                 packages, handlers, listener>>
  /\ UNCHANGED <<reqVars, pureVars>>

\* files = scopeFiles(iprog)
ScopeFiles ==
  /\ mainPc = "scopeFiles"
  /\ files' = scopeFiles(iprog)
  /\ assigned' = [assigned EXCEPT !.files = @ + 1]
  /\ mainPc' = "sortedPackages"
  /\ UNCHANGED <<exitCode, failedAt, args, tags, buildTags, loaderCalls,
                 iprog, ora, packages, handlers, listener>>
  /\ UNCHANGED <<reqVars, pureVars>>

\* packages = sortedPackages(iprog)
SortedPackages ==
  /\ mainPc = "sortedPackages"
  /\ \E order \in Orders(iprog.AllPackages) :
       packages' = sortedPackages(iprog, order)
  /\ assigned' = [assigned EXCEPT !.packages = @ + 1]
  /\ mainPc' = "registerHandlers"
  /\ UNCHANGED <<exitCode, failedAt, args, tags, buildTags, loaderCalls,
                 iprog, ora, files, handlers, listener>>
  /\ UNCHANGED <<reqVars, pureVars>>

\* registerHandlers()
RegisterHandlers ==
  /\ mainPc = "registerHandlers"
  /\ handlers' = TRUE
  /\ mainPc' = "listen"
  /\ UNCHANGED <<exitCode, failedAt, args, tags, buildTags, loaderCalls,
                 iprog, ora, files, packages, assigned, listener>>
  /\ UNCHANGED <<reqVars, pureVars>>

\* Listen with the package index derived again once the listener is open
ListenThenIndex ==
  /\ mainPc = "listen"
  /\ \/ /\ exitError("listen")
        /\ UNCHANGED <<listener, packages, assigned>>
     \/ /\ listener' = "open"
        /\ \E order \in Orders(iprog.AllPackages) :
             packages' = sortedPackages(iprog, order)
        /\ assigned' = [assigned EXCEPT !.packages = @ + 1]
        /\ mainPc' = "openBrowser"
        /\ UNCHANGED <<exitCode, failedAt>>
  /\ UNCHANGED <<args, tags, buildTags, loaderCalls, iprog, ora, files,
                 handlers>>
  /\ UNCHANGED <<reqVars, pureVars>>

\* l, err := net.Listen("tcp", srv.Addr); if err != nil { exitError(err) }
Listen ==
  /\ mainPc = "listen"
  /\ \/ /\ exitError("listen")
        /\ UNCHANGED listener
     \/ /\ listener' = "open"
        /\ mainPc' = "openBrowser"
        /\ UNCHANGED <<exitCode, failedAt>>
  /\ UNCHANGED <<args, tags, buildTags, loaderCalls, iprog, ora, files,
                 packages, assigned, handlers>>
  /\ UNCHANGED <<reqVars, pureVars>>

\* if *open { if !startBrowser(url) { fmt.Println(url) } }: the browser is
\* another process, and whether it starts changes nothing of this one
OpenBrowser ==
  /\ mainPc = "openBrowser"
  /\ mainPc' = "serving"
  /\ UNCHANGED <<exitCode, failedAt, args, tags, buildTags, loaderCalls,
                 iprog, ora, files, packages, assigned, handlers, listener>>
  /\ UNCHANGED <<reqVars, pureVars>>

\* exitError(srv.Serve(l)): Serve returns only with an error
ServeReturns ==
  /\ mainPc = "serving"
  /\ exitError("serve")
  /\ UNCHANGED <<args, tags, buildTags, loaderCalls, iprog, ora, files,
                 packages, assigned, handlers, listener>>
  /\ UNCHANGED <<reqVars, pureVars>>

(* ------------------------- /query requests ----------------------------- *)
\* the analysis modes of the engine
SupportedModes ==
  {StrCallers, StrCallees, StrCallstack, StrDescribe, StrPointsto, StrWhicherrs,
   StrImplements, StrFreevars, StrReferrers, StrCallgraph}

\* every mode but the whole-program call graph asks about a position
PosRequired(mode) == mode # StrCallgraph

\* the file of a position "file:line:col" or "file:#offset"
PosFile(pos) ==
  LET m == IndexByte(pos, Colon) IN
  IF m = 0 THEN pos ELSE SubSeq(pos, 1, m - 1)

\* validation that forgets the scope
ValidQueryNoScope(q) ==
  /\ q.mode \in SupportedModes
  /\ PosRequired(q.mode) => \E i \in DOMAIN files : files[i] = PosFile(q.pos)

\* validation of a query against the supported modes, FileIndex and
\* PackageIndex
ValidQuery(q) ==
  /\ q.mode \in SupportedModes
  /\ PosRequired(q.mode) => \E i \in DOMAIN files : files[i] = PosFile(q.pos)
  /\ \A k \in DOMAIN q.scope :
       \E i \in DOMAIN packages : packages[i].path = q.scope[k]

\* the queries a client sends: against a program with file "a" and package
\* "a" the position resolves and the scope is present, against a program
\* without them they are not
Queries ==
  [mode : {StrCallers, StrCallgraph, StrBogus},
   pos : {StrPosA},
   format : {StrJson},
   scope : {<< >>, <<StrA>>}]

\* how an engine call ends
Outcomes == {"ok", "error", "panic"}

\* serveQuery, first part: read the parameters and validate them; an invalid
\* query is answered with an error
Validate(r) ==
  /\ mainPc = "serving"
  /\ reqPc[r] = "idle"
  /\ \E q \in Queries :
       /\ query' = [query EXCEPT ![r] = q]
       /\ reqPc' = [reqPc EXCEPT ![r] = IF ValidQuery(q) THEN "locking"
                                                          ELSE "failed"]
  /\ UNCHANGED <<mutex, outcome>>
  /\ UNCHANGED <<mainVars, pureVars>>

\* a request entering the engine without waiting for the mutex
LockNoWait(r) ==
  /\ mainPc = "serving"
  /\ reqPc[r] = "locking"
  /\ mutex' = TRUE
  /\ reqPc' = [reqPc EXCEPT ![r] = "engine"]
  /\ UNCHANGED <<query, outcome>>
  /\ UNCHANGED <<mainVars, pureVars>>

\* mutex.Lock(): blocks while the mutex is locked
Lock(r) ==
  /\ mainPc = "serving"
  /\ reqPc[r] = "locking"
  /\ ~mutex
  /\ mutex' = TRUE
  /\ reqPc' = [reqPc EXCEPT ![r] = "engine"]
  /\ UNCHANGED <<query, outcome>>
  /\ UNCHANGED <<mainVars, pureVars>>

\* the engine call ends: with a result, with an error or with a panic
EngineReturns(r) ==
  /\ mainPc = "serving"
  /\ reqPc[r] = "engine"
  /\ \E o \in Outcomes : outcome' = [outcome EXCEPT ![r] = o]
  /\ reqPc' = [reqPc EXCEPT ![r] = "unlocking"]
  /\ UNCHANGED <<mutex, query>>
  /\ UNCHANGED <<mainVars, pureVars>>

\* Unlock placed after the call, so that a panic of the engine skips it
UnlockUnlessPanic(r) ==
  /\ mainPc = "serving"
  /\ reqPc[r] = "unlocking"
  /\ mutex' = (outcome[r] = "panic")
  /\ reqPc' = [reqPc EXCEPT ![r] = "done"]
  /\ UNCHANGED <<query, outcome>>
  /\ UNCHANGED <<mainVars, pureVars>>

\* mutex.Unlock(), on every way out of the engine call
Unlock(r) ==
  /\ mainPc = "serving"
  /\ reqPc[r] = "unlocking"
  /\ mutex' = FALSE
  /\ reqPc' = [reqPc EXCEPT ![r] = "done"]
  /\ UNCHANGED <<query, outcome>>
  /\ UNCHANGED <<mainVars, pureVars>>

\* the response is written and the request ends
Respond(r) ==
  /\ mainPc = "serving"
  /\ reqPc[r] \in {"done", "failed"}
  /\ reqPc' = [reqPc EXCEPT ![r] = "idle"]
  /\ query' = [query EXCEPT ![r] = NoQuery]
  /\ outcome' = [outcome EXCEPT ![r] = "none"]
  /\ UNCHANGED mutex
  /\ UNCHANGED <<mainVars, pureVars>>

(* --------------------------- the service ------------------------------- *)
Init ==
  /\ mainPc = "parse"
  /\ exitCode = 0
  /\ failedAt = "none"
  /\ args = << >>
  /\ tags = Empty
  /\ buildTags = << >>
  /\ loaderCalls = 0
  /\ iprog = NilProgram
  /\ ora = NilOracle
  /\ files = << >>
  /\ packages = << >>
  /\ assigned = [iprog |-> 0, ora |-> 0, files |-> 0, packages |-> 0]
  /\ handlers = FALSE
  /\ listener = "nil"
  /\ mutex = FALSE
  /\ reqPc = [r \in Requests |-> "idle"]
  /\ query = [r \in Requests |-> NoQuery]
  /\ outcome = [r \in Requests |-> "none"]
  /\ prev = [files |-> << >>, packages |-> << >>]
  /\ cmdIn = NoCall
  /\ cmdOut = Empty

Next ==
  \/ ParseFlags
  \/ CheckArgs
  \/ Configure
  \/ FromArgs
  \/ Load
  \/ NewOracle
  \/ ScopeFiles
  \/ SortedPackages
  \/ RegisterHandlers
  \/ Listen
  \/ OpenBrowser
  \/ ServeReturns
  \/ \E r \in Requests : Validate(r)
  \/ \E r \in Requests : Lock(r)
  \/ \E r \in Requests : EngineReturns(r)
  \/ \E r \in Requests : Unlock(r)
  \/ \E r \in Requests : Respond(r)

Spec == Init /\ [][Next]_vars

\* The scheduler runs every request that can take a step; a request blocked
\* in mutex.Lock is woken and handed the mutex when it is released often
\* enough (sync.Mutex does not starve a waiter); new requests need not arrive
\* and Serve need not fail.
Fairness ==
  \A r \in Requests :
    /\ SF_vars(Lock(r))
    /\ WF_vars(EngineReturns(r))
    /\ WF_vars(Unlock(r))
    /\ WF_vars(Respond(r))

FairSpec == Init /\ [][Next]_vars /\ Fairness

(* ----------------------- index derivation alone ------------------------ *)
\* import paths and file names
Paths == {StrA, StrAB, StrB}

\* the package maps of a program: every package object has its own identity,
\* and the map does not relate identity and import path
PackageMaps ==
  UNION { { {[id |-> i, path |-> f[i]] : i \in D} : f \in [D -> Paths] } :
          D \in SUBSET (1..MaxPkgs) }

\* the file sets of a program: files in the order they were added
FileSets == UNION { [1..n -> Paths] : n \in 0..MaxFiles }

Programs ==
  { [isNil |-> FALSE, AllPackages |-> P, Fset |-> F] :
      P \in PackageMaps, F \in FileSets }

InitIndex ==
  /\ mainPc = "derive"
  /\ exitCode = 0
  /\ failedAt = "none"
  /\ args = << >>
  /\ tags = Empty
  /\ buildTags = << >>
  /\ loaderCalls = 0
  /\ iprog \in Programs
  /\ ora = NilOracle
  /\ files = << >>
  /\ packages = << >>
  /\ assigned = [iprog |-> 1, ora |-> 0, files |-> 0, packages |-> 0]
  /\ handlers = FALSE
  /\ listener = "nil"
  /\ mutex = FALSE
  /\ reqPc = [r \in Requests |-> "idle"]
  /\ query = [r \in Requests |-> NoQuery]
  /\ outcome = [r \in Requests |-> "none"]
  /\ prev = [files |-> << >>, packages |-> << >>]
  /\ cmdIn = NoCall
  /\ cmdOut = Empty

\* files = scopeFiles(iprog), a first and a second time
DeriveFiles ==
  /\ mainPc = "derive"
  /\ assigned.files < 2
  /\ prev' = [prev EXCEPT !.files = files]
  /\ files' = scopeFiles(iprog)
  /\ assigned' = [assigned EXCEPT !.files = @ + 1]
  /\ UNCHANGED <<mainPc, exitCode, failedAt, args, tags, buildTags, loaderCalls,
                 iprog, ora, packages, handlers, listener>>
  /\ UNCHANGED <<reqVars, cmdIn, cmdOut>>

\* packages = sortedPackages(iprog), a first and a second time
DerivePackages ==
  /\ mainPc = "derive"
  /\ assigned.packages < 2
  /\ prev' = [prev EXCEPT !.packages = packages]
  /\ \E order \in Orders(iprog.AllPackages) :
       packages' = sortedPackages(iprog, order)
  /\ assigned' = [assigned EXCEPT !.packages = @ + 1]
  /\ UNCHANGED <<mainPc, exitCode, failedAt, args, tags, buildTags, loaderCalls,
                 iprog, ora, files, handlers, listener>>
  /\ UNCHANGED <<reqVars, cmdIn, cmdOut>>

NextIndex == DeriveFiles \/ DerivePackages

SpecIndex == InitIndex /\ [][NextIndex]_vars

(* --------------------------- cmdLine alone ----------------------------- *)
CmdModes == {StrCallers, StrDescribe, Empty}
CmdPositions == {StrFooPos, Empty}
CmdFormats == {StrJson, StrPlain}
CmdScopes == UNION { [1..n -> {StrExamplePkg, StrA}] : n \in 0..MaxScope }

InitCmd ==
  /\ mainPc = "render"
  /\ exitCode = 0
  /\ failedAt = "none"
  /\ args = << >>
  /\ tags = Empty
  /\ buildTags = << >>
  /\ loaderCalls = 0
  /\ iprog = NilProgram
  /\ ora = NilOracle
  /\ files = << >>
  /\ packages = << >>
  /\ assigned = [iprog |-> 0, ora |-> 0, files |-> 0, packages |-> 0]
  /\ handlers = FALSE
  /\ listener = "nil"
  /\ mutex = FALSE
  /\ reqPc = [r \in Requests |-> "idle"]
  /\ query = [r \in Requests |-> NoQuery]
  /\ outcome = [r \in Requests |-> "none"]
  /\ prev = [files |-> << >>, packages |-> << >>]
  /\ cmdIn \in [mode : CmdModes, pos : CmdPositions, format : CmdFormats,
                scope : CmdScopes, called : {FALSE}]
  /\ cmdOut = Empty

\* cmdLine(mode, pos, format, scope)
CallCmdLine ==
  /\ mainPc = "render"
  /\ ~cmdIn.called
  /\ cmdOut' = cmdLine(cmdIn.mode, cmdIn.pos, cmdIn.format, cmdIn.scope)
  /\ cmdIn' = [cmdIn EXCEPT !.called = TRUE]
  /\ UNCHANGED <<mainVars, reqVars, prev>>

NextCmd == CallCmdLine

SpecCmd == InitCmd /\ [][NextCmd]_vars

(* ------------------------------ claims --------------------------------- *)
\* C1: at most one /query request is inside an engine invocation at any
\* instant, however many requests are being handled.
C1_MutualExclusion ==
  Cardinality({r \in Requests : reqPc[r] = "engine"}) <= 1

\* C1 witness: one request is inside the engine while another one is blocked
\* on the guard.
C1_Witness ==
  \E r1, r2 \in Requests :
    r1 # r2 /\ reqPc[r1] = "engine" /\ reqPc[r2] = "locking"

\* C2: the listener is open only after resolution, load, engine construction
\* and both index derivations succeeded; a failure of resolution, load or
\* engine construction ends the process with code 1 and no listener, and no
\* request is served without a listener.
C2_StartupOrdering ==
  /\ listener = "open" =>
       /\ failedAt \in {"none", "serve"}
       /\ loaderCalls = 2
       /\ ~iprog.isNil
       /\ ~ora.isNil /\ ora.prog = iprog
       /\ assigned.files = 1 /\ files = scopeFiles(iprog)
       /\ assigned.packages = 1
       /\ {packages[i] : i \in DOMAIN packages} = iprog.AllPackages
       /\ handlers
  /\ failedAt \in {"fromArgs", "load", "oracle"} =>
       mainPc = "exited" /\ exitCode = 1 /\ listener = "nil"
  /\ (\E r \in Requests : reqPc[r] # "idle") => listener = "open"

\* C2 witness: conf.Load failed, and the process has exited without listener.
C2_Witness ==
  failedAt = "load" /\ mainPc = "exited" /\ exitCode = 1 /\ listener = "nil"

\* C3: without package arguments the process exits with code 2 before the
\* loader is called and before a listener is opened; a flag error and a help
\* request exit with code 2 too; every later fatal error exits with code 1.
C3_ExitCodes ==
  /\ (Len(args) = 0 /\ mainPc \notin {"parse", "checkArgs"}) =>
       /\ mainPc = "exited" /\ exitCode = 2
       /\ loaderCalls = 0 /\ listener = "nil"
       /\ failedAt \in {"flags", "help", "noargs"}
  /\ failedAt \in {"flags", "help", "noargs"} =>
       mainPc = "exited" /\ exitCode = 2 /\ loaderCalls = 0 /\ listener = "nil"
  /\ failedAt \in {"fromArgs", "load", "oracle", "listen", "serve"} =>
       mainPc = "exited" /\ exitCode = 1
  /\ mainPc = "exited" <=> failedAt # "none"
  /\ mainPc # "exited" => exitCode = 0

\* C3 witness: flags parsed, no package argument, process exited.
C3_Witness ==
  failedAt = "noargs" /\ Len(args) = 0 /\ mainPc = "exited"

\* whether a sequence of strings ascends strictly / does not descend
StrictlyAscending(paths) ==
  \A i, j \in DOMAIN paths : i < j => StrLess(paths[i], paths[j])
NonDescending(paths) ==
  \A i, j \in DOMAIN paths : i < j => ~StrLess(paths[j], paths[i])
PathsOf(pkgs) == [i \in DOMAIN pkgs |-> pkgs[i].path]
DistinctFileNames(prog) ==
  \A i, j \in DOMAIN prog.Fset : i # j => prog.Fset[i] # prog.Fset[j]
DistinctPackagePaths(prog) ==
  \A p, q \in prog.AllPackages : p # q => p.path # q.path

\* C4 as stated: both indices ascend strictly, without duplicates.
C4_StrictlySorted ==
  /\ assigned.files >= 1 => StrictlyAscending(files)
  /\ assigned.packages >= 1 => StrictlyAscending(PathsOf(packages))

\* C4 amended: both indices are sorted, path[i] <= path[j] for i < j; they
\* ascend strictly exactly when no two files (packages) of the snapshot have
\* the same path, since the derivation keeps duplicates.
C4_Sorted ==
  /\ assigned.files >= 1 =>
       /\ NonDescending(files)
       /\ Len(files) = Len(iprog.Fset)
       /\ StrictlyAscending(files) <=> DistinctFileNames(iprog)
  /\ assigned.packages >= 1 =>
       /\ NonDescending(PathsOf(packages))
       /\ Len(packages) = Cardinality(iprog.AllPackages)
       /\ StrictlyAscending(PathsOf(packages)) <=> DistinctPackagePaths(iprog)

\* C4 witness: both indices derived; the file set was out of order and held a
\* name twice, and the package with the smaller path comes first.
C4_Witness ==
  /\ assigned.files = 1 /\ assigned.packages = 1
  /\ iprog.Fset = <<StrB, StrA, StrB>>
  /\ files = <<StrA, StrB, StrB>>
  /\ Len(packages) = 2
  /\ packages[1].id = 2
  /\ StrLess(packages[1].path, packages[2].path)

\* the tokens of a command line joined by single spaces
JoinedTokens(mode, pos, format, scope) ==
  Join(<<StrOracle, StrPosFlag \o pos, StrFormatFlag \o format, mode>> \o scope,
       Space)

\* C5 as stated: for every input, an empty scope too, cmdLine is the tokens
\* oracle, -pos=<pos>, -format=<format>, <mode> and the scope packages joined
\* by single spaces.
C5_TokensJoined ==
  cmdIn.called =>
    cmdOut = JoinedTokens(cmdIn.mode, cmdIn.pos, cmdIn.format, cmdIn.scope)

\* C5 amended: cmdLine is the four tokens oracle, -pos=<pos>, -format=<format>,
\* <mode> joined by single spaces, one more space, and the scope packages
\* joined by single spaces: all tokens joined by single spaces when the scope
\* is not empty, the four tokens and a trailing space when it is; the example
\* of the specification yields exactly its command line.
C5_TokensThenScope ==
  cmdIn.called =>
    /\ cmdOut = JoinedTokens(cmdIn.mode, cmdIn.pos, cmdIn.format, << >>)
                  \o Space \o Join(cmdIn.scope, Space)
    /\ cmdIn.scope # << >> =>
         cmdOut = JoinedTokens(cmdIn.mode, cmdIn.pos, cmdIn.format, cmdIn.scope)
    /\ cmdIn.scope = << >> =>
         cmdOut = JoinedTokens(cmdIn.mode, cmdIn.pos, cmdIn.format, << >>)
                    \o Space
    /\ ( /\ cmdIn.mode = StrCallers /\ cmdIn.pos = StrFooPos
         /\ cmdIn.format = StrJson /\ cmdIn.scope = <<StrExamplePkg>> ) =>
         cmdOut = StrExampleLine

\* C5 witness: cmdLine was called with an empty scope, and its result ends in
\* a space.
C5_Witness ==
  /\ cmdIn.called /\ cmdIn.scope = << >> /\ cmdIn.mode = StrCallers
  /\ cmdOut[Len(cmdOut)] = Space[1]

ModeUnsupported(q) == q.mode \notin SupportedModes
PositionUnresolved(q) ==
  PosRequired(q.mode) /\ PosFile(q.pos) \notin {files[i] : i \in DOMAIN files}
ScopeAbsent(q) ==
  \E k \in DOMAIN q.scope :
    q.scope[k] \notin {packages[i].path : i \in DOMAIN packages}

\* C7: a query with an unsupported mode, a required position outside the file
\* index or a scope package outside the package index fails without acquiring
\* the guard and without an engine call.
C7_ValidationFirst ==
  \A r \in Requests :
    ( /\ reqPc[r] # "idle"
      /\ ModeUnsupported(query[r]) \/ PositionUnresolved(query[r])
           \/ ScopeAbsent(query[r]) ) =>
      reqPc[r] = "failed" /\ outcome[r] = "none"

\* C7 witness: a query with a supported mode and a scope package that is not
\* loaded has failed, the guard being free.
C7_Witness ==
  \E r \in Requests :
    /\ reqPc[r] = "failed"
    /\ query[r].mode = StrCallgraph
    /\ query[r].scope = <<StrA>>
    /\ ~mutex

SameElements(s, t) ==
  /\ Len(s) = Len(t)
  /\ \A x \in {s[i] : i \in DOMAIN s} \cup {t[i] : i \in DOMAIN t} :
       Cardinality({i \in DOMAIN s : s[i] = x})
         = Cardinality({i \in DOMAIN t : t[i] = x})

\* C9: a second derivation of an index returns the sequence the first one
\* returned, whatever the iteration order, and an index holds exactly the
\* files (packages) of the snapshot.
C9_Deterministic ==
  /\ assigned.files >= 1 => SameElements(files, iprog.Fset)
  /\ assigned.packages >= 1 =>
       /\ {packages[i] : i \in DOMAIN packages} = iprog.AllPackages
       /\ Len(packages) = Cardinality(iprog.AllPackages)
  /\ assigned.files = 2 => files = prev.files
  /\ assigned.packages = 2 => packages = prev.packages

\* C10: the build tags handed to the loader are none when -tags is not given,
\* and the comma-separated components of its value when it is.
C10_TagsDefaultNone ==
  loaderCalls >= 1 =>
    /\ tags = Empty => buildTags = << >>
    /\ tags # Empty =>
         /\ Join(buildTags, Comma) = tags
         /\ \A i \in DOMAIN buildTags : IndexByte(buildTags[i], Comma) = 0

====
